---------------------------- MODULE Spec2Model ----------------------------
(***************************************************************************)
(* Model of aeneas.analyzecontainer.AnalyzeContainer: the analysis of a    *)
(* container (entries plus a TXT or XML configuration) into a Job holding  *)
(* an ordered list of Tasks.                                               *)
(*                                                                         *)
(* A Python string is a sequence of one-character strings, so that         *)
(* startswith, slicing, split, replace and sorted act on characters.       *)
(***************************************************************************)
EXTENDS Integers, Sequences, FiniteSets, TLC

VARIABLES
    container,     \* the Container given to AnalyzeContainer
    pc,            \* where the analysis call is
    frame,         \* the locals of _analyze_txt_config / _analyze_xml_config
    pending,       \* the list the running loop iterates over
    idx,           \* the index of its next element
    job,           \* the tasks of the Job being built, in add_task order
    result,        \* what the call gave: "pending", "None", "Job", "KeyError"
    entries_read,  \* container.entries() was called
    call,          \* the arguments of a helper called on its own
    ret            \* what that helper returned

vars == <<container, pc, frame, pending, idx, job, result, entries_read, call, ret>>

-----------------------------------------------------------------------------
(* Characters and strings *)

\* The characters used by the model, in code point order.
Alphabet ==
    <<" ", "$", ".", "/", "0", "1", "2", "3", "4", "5", "6", "7", "8", "9",
      "E", "F", "I", "P", "R", "T", "X", "a", "b", "c", "d", "e", "f", "g", "h", "i", "k", "l", "m", "n",
      "o", "p", "r", "s", "t", "u", "x", "y">>

Chars == {Alphabet[i] : i \in 1..Len(Alphabet)}

Digits == {"0", "1", "2", "3", "4", "5", "6", "7", "8", "9"}

\* ord(c)
Code(c) == CHOOSE i \in 1..Len(Alphabet) : Alphabet[i] = c

\* Python None, where a string is expected
NoneV == <<"None">>

\* a key that is absent from a configuration dictionary
Absent == <<"KeyError">>

SEP == "/"

\* s < t for Python strings (lexicographic on code points)
RECURSIVE StrLess(_, _)
StrLess(s, t) ==
    IF t = <<>> THEN FALSE
    ELSE IF s = <<>> THEN TRUE
    ELSE IF s[1] = t[1] THEN StrLess(Tail(s), Tail(t))
    ELSE Code(s[1]) < Code(t[1])

\* s.startswith(p)
StartsWith(s, p) == Len(p) <= Len(s) /\ SubSeq(s, 1, Len(p)) = p

\* s[n:]
SliceFrom(s, n) == IF n >= Len(s) THEN <<>> ELSE SubSeq(s, n + 1, Len(s))

\* needle in s
Contains(s, needle) ==
    \E i \in 1..(Len(s) + 1) :
        i + Len(needle) - 1 <= Len(s) /\ SubSeq(s, i, i + Len(needle) - 1) = needle

\* s.split(sep): the list of the pieces between the separators
RECURSIVE Split(_, _)
Split(s, sep) ==
    IF \A i \in 1..Len(s) : s[i] # sep THEN <<s>>
    ELSE LET k == CHOOSE i \in 1..Len(s) :
                      s[i] = sep /\ \A j \in 1..(i - 1) : s[j] # sep
         IN  <<SubSeq(s, 1, k - 1)>> \o Split(SliceFrom(s, k), sep)

\* sep.join(parts)
RECURSIVE JoinWith(_, _)
JoinWith(parts, sep) ==
    IF parts = <<>> THEN <<>>
    ELSE IF Len(parts) = 1 THEN parts[1]
    ELSE parts[1] \o <<sep>> \o JoinWith(Tail(parts), sep)

\* sorted(list of strings): insertion into an ordered list
RECURSIVE InsertSorted(_, _)
InsertSorted(x, l) ==
    IF l = <<>> THEN <<x>>
    ELSE IF StrLess(x, l[1]) THEN <<x>> \o l
    ELSE <<l[1]>> \o InsertSorted(x, Tail(l))

RECURSIVE Sorted(_)
Sorted(l) == IF l = <<>> THEN <<>> ELSE InsertSorted(l[1], Sorted(Tail(l)))

\* sorted(set of strings)
RECURSIVE SortedSet(_)
SortedSet(S) ==
    IF S = {} THEN <<>>
    ELSE LET m == CHOOSE x \in S : \A y \in S : y = x \/ StrLess(x, y)
         IN  <<m>> \o SortedSet(S \ {m})

Range(l) == {l[i] : i \in 1..Len(l)}

-----------------------------------------------------------------------------
(* Regular expressions (the re module, on the fragment the model uses):    *)
(* a pattern is a sequence of atoms, an atom is a character class, taken   *)
(* once or (plus) one or more times.                                       *)

Lit(c) == [class |-> {c}, plus |-> FALSE]

\* the positions after a match of atoms k.. of rx that starts at position i of s
RECURSIVE MatchEnds(_, _, _, _)
MatchEnds(rx, s, k, i) ==
    IF k > Len(rx) THEN {i}
    ELSE IF i > Len(s) THEN {}
    ELSE IF s[i] \notin rx[k].class THEN {}
    ELSE MatchEnds(rx, s, k + 1, i + 1)
         \cup (IF rx[k].plus THEN MatchEnds(rx, s, k, i + 1) ELSE {})

\* re.match(rx, s) != None: a match that starts at the start of s
ReMatch(rx, s) == MatchEnds(rx, s, 1, 1) # {}

\* re.search(rx, s) != None: a match that starts anywhere in s
ReSearch(rx, s) == \E i \in 1..(Len(s) + 1) : MatchEnds(rx, s, 1, i) # {}

-----------------------------------------------------------------------------
(* aeneas.globalfunctions and os.path, as AnalyzeContainer calls them *)

\* os.path.join(a, b)
PathJoin(a, b) ==
    IF b # <<>> /\ b[1] = SEP THEN b
    ELSE IF a = <<>> \/ a[Len(a)] = SEP THEN a \o b
    ELSE a \o <<SEP>> \o b

\* the component list of os.path.normpath: "" and "." are dropped, ".." pops
RECURSIVE NormComps(_, _, _)
NormComps(comps, acc, rooted) ==
    IF comps = <<>> THEN acc
    ELSE LET c == comps[1] IN
         IF c = <<>> \/ c = <<".">> THEN NormComps(Tail(comps), acc, rooted)
         ELSE IF c # <<".", ".">>
                 \/ (~rooted /\ acc = <<>>)
                 \/ (acc # <<>> /\ acc[Len(acc)] = <<".", ".">>)
              THEN NormComps(Tail(comps), Append(acc, c), rooted)
         ELSE IF acc # <<>>
              THEN NormComps(Tail(comps), SubSeq(acc, 1, Len(acc) - 1), rooted)
         ELSE NormComps(Tail(comps), acc, rooted)

\* os.path.normpath(path)
NormPath(path) ==
    IF path = <<>> THEN <<".">>
    ELSE LET slashes == IF path[1] # SEP THEN <<>>
                        ELSE IF StartsWith(path, <<SEP, SEP>>)
                                /\ ~StartsWith(path, <<SEP, SEP, SEP>>)
                             THEN <<SEP, SEP>>
                        ELSE <<SEP>>
             joined == slashes
                       \o JoinWith(NormComps(Split(path, SEP), <<>>, slashes # <<>>), SEP)
         IN  IF joined = <<>> THEN <<".">> ELSE joined

\* gf.norm_join(prefix, suffix)
NormJoin(prefix, suffix) ==
    IF prefix = NoneV /\ suffix = NoneV THEN <<".">>
    ELSE IF prefix = NoneV THEN NormPath(suffix)
    ELSE IF suffix = NoneV THEN NormPath(prefix)
    ELSE NormPath(PathJoin(prefix, suffix))

\* the index of the last occurrence of c in s, 0 if there is none
LastIndexOf(s, c) ==
    IF \A i \in 1..Len(s) : s[i] # c THEN 0
    ELSE CHOOSE i \in 1..Len(s) : s[i] = c /\ \A j \in (i + 1)..Len(s) : s[j] # c

\* os.path.basename(path)
Basename(path) == SliceFrom(path, LastIndexOf(path, SEP))

\* os.path.dirname(path)
Dirname(path) ==
    LET head == SubSeq(path, 1, LastIndexOf(path, SEP))
        last == IF \A i \in 1..Len(head) : head[i] = SEP THEN 0
                ELSE CHOOSE i \in 1..Len(head) :
                         head[i] # SEP /\ \A j \in (i + 1)..Len(head) : head[j] = SEP
    IN  IF last = 0 THEN head ELSE SubSeq(head, 1, last)

\* os.path.splitext(name)[0], for a name without separator: the last dot starts
\* the extension unless only dots precede it
SplitextRoot(name) ==
    LET dot == LastIndexOf(name, ".")
    IN  IF dot > 0 /\ \E j \in 1..(dot - 1) : name[j] # "."
        THEN SubSeq(name, 1, dot - 1)
        ELSE name

\* a key that keeps the directory part (only the final extension is removed)
FileNameWithoutExtensionKeepDir(path) ==
    LET cut == LastIndexOf(path, SEP)
    IN  SubSeq(path, 1, cut) \o SplitextRoot(SliceFrom(path, cut))

\* gf.file_name_without_extension(path): "foo/text/a.txt" gives "a"
FileNameWithoutExtension(path) == SplitextRoot(Basename(path))

-----------------------------------------------------------------------------
(* AnalyzeContainer's helpers *)

HT_FLAT == "flat"
HT_PAGED == "paged"

\* gc.PPV_OS_TASK_PREFIX
PPV_OS_TASK_PREFIX == <<"$", "P", "R", "E", "F", "I", "X">>

\* str.replace(old, new), old not empty: left to right, occurrences do not overlap
RECURSIVE StrReplace(_, _, _)
StrReplace(s, old, new) ==
    IF Len(s) < Len(old) THEN s
    ELSE IF StartsWith(s, old) THEN new \o StrReplace(SliceFrom(s, Len(old)), old, new)
    ELSE <<s[1]>> \o StrReplace(Tail(s), old, new)

\* replaces the first occurrence only
RECURSIVE StrReplaceFirst(_, _, _)
StrReplaceFirst(s, old, new) ==
    IF Len(s) < Len(old) THEN s
    ELSE IF StartsWith(s, old) THEN new \o SliceFrom(s, Len(old))
    ELSE <<s[1]>> \o StrReplaceFirst(Tail(s), old, new)

ReplacePlaceholderFirstOnly(string, custom_id) ==
    IF string = NoneV THEN NoneV
    ELSE StrReplaceFirst(string, PPV_OS_TASK_PREFIX, custom_id)

\* _replace_placeholder
ReplacePlaceholder(string, custom_id) ==
    IF string = NoneV THEN NoneV
    ELSE StrReplace(string, PPV_OS_TASK_PREFIX, custom_id)

\* _compute_sync_map_file_path
ComputeSyncMapFilePath(root, hierarchy_type, custom_id, file_name) ==
    LET prefix == IF hierarchy_type = HT_PAGED THEN NormJoin(root, custom_id) ELSE root
        file_name_joined == NormJoin(prefix, file_name)
    IN  ReplacePlaceholder(file_name_joined, custom_id)

\* _find_files
FindFiles(entries, root, relative_path, file_name_regex) ==
    LET target == IF relative_path # NoneV THEN NormJoin(root, relative_path) ELSE root
        Keep(entry) == StartsWith(entry, target)
                       /\ ReSearch(file_name_regex, SliceFrom(entry, Len(target) + 1))
    IN  Sorted(SelectSeq(entries, Keep))

\* a dict as the function from its keys to their values: the keys have no
\* order of their own (the empty dict is the function of empty domain, <<>>)
DictHas(d, key) == key \in DOMAIN d
DictGet(d, key) == d[key]
\* d[key] = value: the last value set for a key is the one it has
DictSet(d, key, value) ==
    [k \in DOMAIN d \cup {key} |-> IF k = key THEN value ELSE d[k]]
\* d.keys(): the keys come in the order of the interpreter's hash table, which
\* is neither the insertion order nor the sorted order and changes with the
\* interpreter and its hash seed: every order of the keys is a possible list
DictKeys(d) ==
    {keys \in [1..Cardinality(DOMAIN d) -> DOMAIN d] :
        \A i, j \in 1..Cardinality(DOMAIN d) : keys[i] = keys[j] => i = j}

\* the dict that maps each file's name without extension to the file
RECURSIVE KeyedFiles(_, _)
KeyedFiles(files, d) ==
    IF files = <<>> THEN d
    ELSE KeyedFiles(Tail(files), DictSet(d, FileNameWithoutExtension(files[1]), files[1]))

\* the key of a pair is the whole path of its text file
MatchFilesFlatHierarchyFullPathKey(text_files, audio_files) ==
    LET d_text == KeyedFiles(text_files, <<>>)
        d_audio == KeyedFiles(audio_files, <<>>)
        Both(key) == DictHas(d_audio, key)
        Tasks(keys) == LET matched == SelectSeq(keys, Both)
                       IN  [i \in 1..Len(matched) |->
                               <<DictGet(d_text, matched[i]), DictGet(d_text, matched[i]),
                                 DictGet(d_audio, matched[i])>>]
    IN  {Tasks(keys) : keys \in DictKeys(d_text)}

\* the i-th text file is paired with the i-th audio file when their keys agree
MatchFilesFlatHierarchyByPosition(text_files, audio_files) ==
    LET n == IF Len(text_files) < Len(audio_files) THEN Len(text_files)
             ELSE Len(audio_files)
        Same(i) == FileNameWithoutExtension(text_files[i])
                       = FileNameWithoutExtension(audio_files[i])
        RECURSIVE From(_)
        From(i) == IF i > n THEN <<>>
                   ELSE (IF Same(i)
                         THEN <<<<FileNameWithoutExtension(text_files[i]),
                                  text_files[i], audio_files[i]>>>>
                         ELSE <<>>) \o From(i + 1)
    IN  {From(1)}

\* a pair is emitted for every text file, not for every text key
MatchFilesFlatHierarchyPerTextFile(text_files, audio_files) ==
    LET d_audio == KeyedFiles(audio_files, <<>>)
        Both(file) == DictHas(d_audio, FileNameWithoutExtension(file))
        matched == SelectSeq(text_files, Both)
    IN  {[i \in 1..Len(matched) |->
             <<FileNameWithoutExtension(matched[i]), matched[i],
               DictGet(d_audio, FileNameWithoutExtension(matched[i]))>>]}

\* _match_files_flat_hierarchy: the lists it can return, one for each order in
\* which d_text.keys() can give the keys
MatchFilesFlatHierarchy(text_files, audio_files) ==
    LET d_text == KeyedFiles(text_files, <<>>)
        d_audio == KeyedFiles(audio_files, <<>>)
        Both(key) == DictHas(d_audio, key)
        Tasks(keys) == LET matched == SelectSeq(keys, Both)
                       IN  [i \in 1..Len(matched) |->
                               <<matched[i], DictGet(d_text, matched[i]),
                                 DictGet(d_audio, matched[i])>>]
    IN  {Tasks(keys) : keys \in DictKeys(d_text)}

\* a directory is accepted only if the entry lies two levels below it
MatchDirectoriesDeeper(entries, root, regex) ==
    LET Splitted(entry) == Split(SliceFrom(entry, Len(root) + 1), SEP)
        directories == {Splitted(e)[1] :
                           e \in {x \in Range(entries) :
                                     /\ StartsWith(x, root)
                                     /\ Len(Splitted(x)) > 2
                                     /\ ReMatch(regex, Splitted(x)[1])}}
    IN  SortedSet(directories)

\* _match_directories
MatchDirectories(entries, root, regex) ==
    LET Splitted(entry) == Split(SliceFrom(entry, Len(root) + 1), SEP)
        directories == {Splitted(e)[1] :
                           e \in {x \in Range(entries) :
                                     /\ StartsWith(x, root)
                                     /\ Len(Splitted(x)) >= 2
                                     /\ ReMatch(regex, Splitted(x)[1])}}
    IN  SortedSet(directories)

\* _create_task raises KeyError: neither language key is in the dictionary
CreateTaskRaises(parameters) ==
    parameters.task_language = Absent /\ parameters.job_language = Absent

\* the job key is looked up first
TaskLanguageJobFirst(parameters) ==
    IF parameters.job_language # Absent THEN parameters.job_language
    ELSE parameters.task_language

\* the language _create_task sets
TaskLanguage(parameters) ==
    IF parameters.task_language # Absent THEN parameters.task_language
    ELSE parameters.job_language

\* _create_task, when it does not raise
CreateTask(task_info, parameters, sync_map_root_directory, job_os_hierarchy_type) ==
    [description |-> <<"T", "a", "s", "k", " ">> \o task_info[1],
     language |-> TaskLanguage(parameters),
     custom_id |-> task_info[1],
     text_file_path |-> task_info[2],
     audio_file_path |-> task_info[3],
     sync_map_file_path |->
         ComputeSyncMapFilePath(sync_map_root_directory, job_os_hierarchy_type,
                                task_info[1], parameters.os_file_name),
     os_file_smil_audio_ref |->
         ReplacePlaceholder(parameters.os_file_smil_audio_ref, task_info[1]),
     os_file_smil_page_ref |->
         ReplacePlaceholder(parameters.os_file_smil_page_ref, task_info[1])]

-----------------------------------------------------------------------------
(* The containers the model analyzes *)

\* the most entries a container lists
MaxEntries == 5
\* the most <task> elements of an XML configuration
MaxXmlTasks == 3

E_1_page_txt == <<"r", "/", "1", "/", "p", "a", "g", "e", ".", "t", "x", "t">>
E_1_page_mp3 == <<"r", "/", "1", "/", "p", "a", "g", "e", ".", "m", "p", "3">>
E_1_b_txt == <<"r", "/", "1", "/", "b", ".", "t", "x", "t">>
E_2_page_txt == <<"r", "/", "2", "/", "p", "a", "g", "e", ".", "t", "x", "t">>
E_2_page_mp3 == <<"r", "/", "2", "/", "p", "a", "g", "e", ".", "m", "p", "3">>
E_3_other_bin == <<"r", "/", "3", "/", "o", "t", "h", "e", "r", ".", "b", "i", "n">>
E_text_ch1_txt == <<"r", "/", "t", "e", "x", "t", "/", "c", "h", "1", ".", "t", "x", "t">>
E_audio_ch1_mp3 == <<"r", "/", "a", "u", "d", "i", "o", "/", "c", "h", "1", ".", "m", "p", "3">>
E_text_ch2_txt == <<"r", "/", "t", "e", "x", "t", "/", "c", "h", "2", ".", "t", "x", "t">>
E_audio_ch2_mp3 == <<"r", "/", "a", "u", "d", "i", "o", "/", "c", "h", "2", ".", "m", "p", "3">>
E_text2_ch3_txt == <<"r", "/", "t", "e", "x", "t", "2", "/", "c", "h", "3", ".", "t", "x", "t">>
E_audio_ch3_mp3 == <<"r", "/", "a", "u", "d", "i", "o", "/", "c", "h", "3", ".", "m", "p", "3">>
OUT == <<"o", "u", "t">>
OUT_PH == <<"o", "u", "t", "/", "$", "P", "R", "E", "F", "I", "X">>
CH01 == <<"c", "h", "0", "1">>
PH_SMIL == <<"$", "P", "R", "E", "F", "I", "X", ".", "s", "m", "i", "l">>
MAP_SMIL == <<"m", "a", "p", ".", "s", "m", "i", "l">>
PH_PH_SMIL == <<"$", "P", "R", "E", "F", "I", "X", "/", "$", "P", "R", "E", "F", "I", "X", ".", "s", "m", "i", "l">>
PRE_PH_FIX_SMIL == <<"$", "P", "R", "E", "$", "P", "R", "E", "F", "I", "X", "F", "I", "X", ".", "s", "m", "i", "l">>
E_textch4_txt == <<"r", "/", "t", "e", "x", "t", "c", "h", "4", ".", "t", "x", "t">>
A_X_TXT == <<"a", "/", "x", ".", "t", "x", "t">>
B_X_TXT == <<"b", "/", "x", ".", "t", "x", "t">>
A_Y_TXT == <<"a", "/", "y", ".", "t", "x", "t">>
A_X_MP3 == <<"a", "/", "x", ".", "m", "p", "3">>
B_X_MP3 == <<"b", "/", "x", ".", "m", "p", "3">>
A_Y_MP3 == <<"a", "/", "y", ".", "m", "p", "3">>

\* the entries of a paged layout under the tasks root r
PagedEntries ==
    {E_1_page_txt, E_1_page_mp3, E_1_b_txt, E_2_page_txt, E_2_page_mp3, E_3_other_bin}

\* the entries of a flat layout under the tasks root r
FlatEntries == {E_text_ch1_txt, E_audio_ch1_mp3, E_text_ch2_txt, E_audio_ch2_mp3}

\* the lists of at most n distinct elements of U, in every order
RECURSIVE ListsOf(_, _)
ListsOf(U, n) ==
    IF n = 0 THEN {<<>>}
    ELSE LET shorter == ListsOf(U, n - 1)
         IN  shorter \cup UNION {{Append(l, x) : x \in U \ Range(l)} : l \in shorter}

RX_TXT == <<Lit("."), Lit("t"), Lit("x"), Lit("t")>>
RX_MP3 == <<Lit("."), Lit("m"), Lit("p"), Lit("3")>>
\* [0-9]+
RX_DIGITS == <<[class |-> Digits, plus |-> TRUE]>>

LANG_EN == <<"e", "n">>
LANG_IT == <<"i", "t">>

\* the dictionary of a TXT configuration string
TxtParameters(hierarchy, prefix, os_hierarchy, task_language, job_language) ==
    [is_hierarchy_type |-> hierarchy,
     is_hierarchy_prefix |-> prefix,
     is_text_file_relative_path |->
         IF hierarchy = HT_FLAT THEN <<"t", "e", "x", "t">> ELSE <<".">>,
     is_text_file_name_regex |-> RX_TXT,
     is_audio_file_relative_path |->
         IF hierarchy = HT_FLAT THEN <<"a", "u", "d", "i", "o">> ELSE <<".">>,
     is_audio_file_name_regex |-> RX_MP3,
     is_task_directory_name_regex |-> RX_DIGITS,
     os_hierarchy_type |-> os_hierarchy,
     os_hierarchy_prefix |-> <<"o", "u", "t">>,
     task_language |-> task_language,
     job_language |-> job_language,
     os_file_name |-> PPV_OS_TASK_PREFIX \o <<".", "s", "m", "i", "l">>,
     os_file_smil_audio_ref |-> PPV_OS_TASK_PREFIX \o <<".", "m", "p", "3">>,
     os_file_smil_page_ref |-> NoneV]

\* the language keys a configuration can carry: <<task_language, job_language>>
LanguageKeys == {<<LANG_IT, LANG_EN>>, <<Absent, LANG_EN>>, <<Absent, Absent>>}

\* a TXT configuration: the config entry and the dictionary of its contents
TxtConfigs ==
    {[entry |-> <<"c", "o", "n", "f", "i", "g", ".", "t", "x", "t">>,
      parameters |-> TxtParameters(h, <<"r">>,
                                   IF l[1] = Absent THEN HT_PAGED ELSE HT_FLAT,
                                   l[1], l[2])] :
        h \in {HT_FLAT, HT_PAGED}, l \in LanguageKeys}
    \cup
    {[entry |-> <<"r", "/", "c", "o", "n", "f", "i", "g", ".", "t", "x", "t">>,
      parameters |-> TxtParameters(h, <<".">>, HT_FLAT, Absent, LANG_EN)] :
        h \in {HT_FLAT, HT_PAGED, "other"}}

\* the configuration strings the wizard passes
WizardConfigs ==
    {TxtParameters(HT_FLAT, <<"r">>, HT_FLAT, Absent, LANG_EN),
     TxtParameters(HT_PAGED, <<"r">>, HT_PAGED, Absent, Absent)}

\* the dictionary of one <task> element of an XML configuration
XmlTaskParameters(custom_id, text, audio, task_language, job_language) ==
    [custom_id |-> custom_id,
     is_text_file_xml |-> text,
     is_audio_file_xml |-> audio,
     task_language |-> task_language,
     job_language |-> job_language,
     os_file_name |-> PPV_OS_TASK_PREFIX \o <<".", "s", "m", "i", "l">>,
     os_file_smil_audio_ref |-> NoneV,
     os_file_smil_page_ref |-> PPV_OS_TASK_PREFIX]

XmlTasks ==
    {XmlTaskParameters(<<"a">>, <<"t", "/", "a", ".", "t", "x", "t">>,
                       <<"a", ".", "m", "p", "3">>, LANG_EN, Absent),
     XmlTaskParameters(Absent, <<"t", "/", "b", ".", "t", "x", "t">>,
                       <<"b", ".", "m", "p", "3">>, Absent, LANG_IT),
     XmlTaskParameters(<<"c">>, <<".", ".", "/", "c", ".", "t", "x", "t">>,
                       <<"c", ".", "m", "p", "3">>, Absent, Absent)}

\* an XML configuration: the config entry, the job dictionary, the task dictionaries
XmlConfigs ==
    {[entry |-> e,
      job |-> [os_hierarchy_type |-> o, os_hierarchy_prefix |-> <<"o", "u", "t">>],
      tasks |-> t] :
        e \in {<<"c", "o", "n", "f", "i", "g", ".", "x", "m", "l">>,
               <<"d", "/", "c", "o", "n", "f", "i", "g", ".", "x", "m", "l">>},
        o \in {HT_FLAT, HT_PAGED},
        t \in UNION {[1..n -> XmlTasks] : n \in 0..MaxXmlTasks}}

NoTxtConfig == [entry |-> NoneV, parameters |-> NoneV]
NoXmlConfig == [entry |-> NoneV, job |-> NoneV, tasks |-> <<>>]

\* the entries a container with TXT configuration t lists
EntriesFor(t) ==
    ListsOf(IF t.parameters.is_hierarchy_type = HT_FLAT THEN FlatEntries ELSE PagedEntries,
            MaxEntries)

Containers ==
    \* neither configuration
    {[has_config_xml |-> FALSE, has_config_txt |-> FALSE,
      config_txt |-> NoTxtConfig, config_xml |-> NoXmlConfig, entries |-> e] :
        e \in ListsOf(FlatEntries, 2)}
    \cup
    \* a TXT configuration
    UNION {{[has_config_xml |-> FALSE, has_config_txt |-> TRUE,
             config_txt |-> t, config_xml |-> NoXmlConfig, entries |-> e] :
               e \in EntriesFor(t)} : t \in TxtConfigs}
    \cup
    \* an XML configuration, alone or beside a TXT one
    {[has_config_xml |-> TRUE, has_config_txt |-> (t # NoTxtConfig),
      config_txt |-> t, config_xml |-> x, entries |-> e] :
        x \in XmlConfigs,
        t \in {NoTxtConfig,
               [entry |-> <<"c", "o", "n", "f", "i", "g", ".", "t", "x", "t">>,
                parameters |-> TxtParameters(HT_FLAT, <<"r">>, HT_FLAT, LANG_IT, LANG_EN)]},
        e \in {<<>>, <<E_text_ch1_txt, E_audio_ch1_mp3>>}}

-----------------------------------------------------------------------------
(* The analysis call *)

NoFrame ==
    [entry_point |-> "none", parameters |-> NoneV, tasks_root_directory |-> NoneV,
     config_dir |-> NoneV, sync_map_root_directory |-> NoneV,
     job_os_hierarchy_type |-> NoneV]

NoCall == [fn |-> "none"]

Init ==
    /\ container \in Containers
    /\ pc = "start"
    /\ frame = NoFrame
    /\ pending = <<>>
    /\ idx = 1
    /\ job = <<>>
    /\ result = "pending"
    /\ entries_read = FALSE
    /\ call = NoCall
    /\ ret = NoneV

\* the lists of matched units a flat hierarchy can give: _analyze_txt_config
\* lines 159-181
FlatMatchedTasks(entries, parameters, tasks_root_directory) ==
    MatchFilesFlatHierarchy(
        FindFiles(entries, tasks_root_directory,
                  parameters.is_text_file_relative_path,
                  parameters.is_text_file_name_regex),
        FindFiles(entries, tasks_root_directory,
                  parameters.is_audio_file_relative_path,
                  parameters.is_audio_file_name_regex))

\* _analyze_txt_config up to its loop over the matched units or directories
AnalyzeTxtConfig(entry_point, parameters, config_dir) ==
    LET tasks_root_directory == NormJoin(config_dir, parameters.is_hierarchy_prefix)
        sync_map_root_directory == NormJoin(config_dir, parameters.os_hierarchy_prefix)
    IN  /\ frame' = [entry_point |-> entry_point,
                     parameters |-> parameters,
                     config_dir |-> config_dir,
                     tasks_root_directory |-> tasks_root_directory,
                     sync_map_root_directory |-> sync_map_root_directory,
                     job_os_hierarchy_type |-> parameters.os_hierarchy_type]
        /\ job' = <<>>
        /\ entries_read' = TRUE
        /\ idx' = 1
        /\ IF parameters.is_hierarchy_type = HT_FLAT
           THEN /\ \E matched_tasks \in FlatMatchedTasks(container.entries, parameters,
                                                         tasks_root_directory) :
                       pending' = matched_tasks
                /\ pc' = "flat_loop"
                /\ result' = result
           ELSE IF parameters.is_hierarchy_type = HT_PAGED
           THEN /\ pending' = MatchDirectories(container.entries, tasks_root_directory,
                                               parameters.is_task_directory_name_regex)
                /\ pc' = "paged_loop"
                /\ result' = result
           ELSE /\ pending' = <<>>
                /\ pc' = "returned"
                /\ result' = "Job"
        /\ UNCHANGED <<container, call, ret>>

\* analyze(), the container has an XML configuration: _analyze_xml_config up to its loop
AnalyzeXml ==
    /\ pc = "start"
    /\ container.has_config_xml
    /\ LET config_dir == Dirname(container.config_xml.entry)
           job_parameters == container.config_xml.job
       IN  frame' = [entry_point |-> "analyze",
                     parameters |-> job_parameters,
                     config_dir |-> config_dir,
                     tasks_root_directory |-> NoneV,
                     sync_map_root_directory |->
                         NormJoin(config_dir, job_parameters.os_hierarchy_prefix),
                     job_os_hierarchy_type |-> job_parameters.os_hierarchy_type]
    /\ pending' = container.config_xml.tasks
    /\ idx' = 1
    /\ job' = <<>>
    /\ pc' = "xml_loop"
    /\ UNCHANGED <<container, result, entries_read, call, ret>>

\* a TXT configuration is taken for none
AnalyzeTxtAsNoConfig ==
    /\ pc = "start"
    /\ ~container.has_config_xml
    /\ container.has_config_txt
    /\ pc' = "returned"
    /\ result' = "None"
    /\ frame' = [NoFrame EXCEPT !.entry_point = "analyze"]
    /\ UNCHANGED <<container, pending, idx, job, entries_read, call, ret>>

\* analyze(), the container has a TXT configuration and no XML one
AnalyzeTxt ==
    /\ pc = "start"
    /\ ~container.has_config_xml
    /\ container.has_config_txt
    /\ AnalyzeTxtConfig("analyze", container.config_txt.parameters,
                        Dirname(container.config_txt.entry))

\* analyze(), the container has no configuration
AnalyzeNoConfig ==
    /\ pc = "start"
    /\ ~container.has_config_xml
    /\ ~container.has_config_txt
    /\ pc' = "returned"
    /\ result' = "None"
    /\ frame' = [NoFrame EXCEPT !.entry_point = "analyze"]
    /\ UNCHANGED <<container, pending, idx, job, entries_read, call, ret>>

\* analyze_from_wizard(config_string)
AnalyzeFromWizard ==
    /\ pc = "start"
    /\ \E parameters \in WizardConfigs : AnalyzeTxtConfig("wizard", parameters, <<>>)

\* the call raises the KeyError of _create_task
Raise ==
    /\ pc' = "raised"
    /\ result' = "KeyError"
    /\ UNCHANGED <<container, frame, pending, idx, job, entries_read, call, ret>>

\* the loop is over: return job
ReturnJob ==
    /\ pc' = "returned"
    /\ result' = "Job"
    /\ UNCHANGED <<container, frame, pending, idx, job, entries_read, call, ret>>

\* job.add_task(_create_task(task_info, ...)) and on to the next element
AddTask(task_info, parameters) ==
    /\ job' = Append(job, CreateTask(task_info, parameters,
                                     frame.sync_map_root_directory,
                                     frame.job_os_hierarchy_type))
    /\ idx' = idx + 1
    /\ UNCHANGED <<container, pc, frame, pending, result, entries_read, call, ret>>

\* on to the next element without a task
SkipUnit ==
    /\ idx' = idx + 1
    /\ UNCHANGED <<container, pc, frame, pending, job, result, entries_read, call, ret>>

\* one round of the loop over matched_tasks (flat hierarchy), lines 183-191
FlatLoop ==
    /\ pc = "flat_loop"
    /\ IF idx > Len(pending) THEN ReturnJob
       ELSE IF CreateTaskRaises(frame.parameters) THEN Raise
       ELSE AddTask(pending[idx], frame.parameters)

\* the text and audio files of one matched directory, lines 205-225
PagedFiles(entries, parameters, tasks_root_directory, matched_directory) ==
    LET matched_directory_full_path == NormJoin(tasks_root_directory, matched_directory)
    IN  [text_files |-> FindFiles(entries, matched_directory_full_path,
                                  parameters.is_text_file_relative_path,
                                  parameters.is_text_file_name_regex),
         audio_files |-> FindFiles(entries, matched_directory_full_path,
                                   parameters.is_audio_file_relative_path,
                                   parameters.is_audio_file_name_regex)]

\* a task is built as soon as there is a text file and an audio file
PagedCreatesTaskAtLeastOne(found) ==
    Len(found.text_files) >= 1 /\ Len(found.audio_files) >= 1

\* the test of line 229: exactly one text file and one audio file
PagedCreatesTask(found) == Len(found.text_files) = 1 /\ Len(found.audio_files) = 1

\* one round of the loop over matched_directories (paged hierarchy), lines 203-249
PagedLoop ==
    /\ pc = "paged_loop"
    /\ IF idx > Len(pending) THEN ReturnJob
       ELSE LET found == PagedFiles(container.entries, frame.parameters,
                                    frame.tasks_root_directory, pending[idx])
            IN  IF PagedCreatesTask(found)
                THEN IF CreateTaskRaises(frame.parameters) THEN Raise
                     ELSE AddTask(<<pending[idx], found.text_files[1],
                                    found.audio_files[1]>>,
                                  frame.parameters)
                ELSE SkipUnit

\* the explicit paths are not joined onto the directory of the config entry
XmlTaskInfoNoJoin(task_parameters, config_dir) ==
    <<IF task_parameters.custom_id = Absent THEN <<>> ELSE task_parameters.custom_id,
      NormPath(task_parameters.is_text_file_xml),
      NormPath(task_parameters.is_audio_file_xml)>>

\* the task_info of one <task> dictionary, lines 317-331
XmlTaskInfo(task_parameters, config_dir) ==
    <<IF task_parameters.custom_id = Absent THEN <<>> ELSE task_parameters.custom_id,
      NormJoin(config_dir, task_parameters.is_text_file_xml),
      NormJoin(config_dir, task_parameters.is_audio_file_xml)>>

\* one round of the loop over tasks_parameters (XML configuration), lines 313-339
XmlLoop ==
    /\ pc = "xml_loop"
    /\ IF idx > Len(pending) THEN ReturnJob
       ELSE IF CreateTaskRaises(pending[idx]) THEN Raise
       ELSE AddTask(XmlTaskInfo(pending[idx], frame.config_dir), pending[idx])

Next ==
    \/ AnalyzeXml
    \/ AnalyzeTxt
    \/ AnalyzeNoConfig
    \/ AnalyzeFromWizard
    \/ FlatLoop
    \/ PagedLoop
    \/ XmlLoop

Spec == Init /\ [][Next]_vars

-----------------------------------------------------------------------------
(* Properties of the analysis call *)

\* the call is analyze() on a container whose configuration is the TXT one
TxtAnalysis ==
    /\ frame.entry_point = "analyze"
    /\ ~container.has_config_xml
    /\ container.has_config_txt

\* the call is analyze() on a container with an XML configuration
XmlAnalysis == frame.entry_point = "analyze" /\ container.has_config_xml

\* <<identifier, text path, audio path>> of every task of the job, in order
JobUnits == [i \in 1..Len(job) |->
                <<job[i].custom_id, job[i].text_file_path, job[i].audio_file_path>>]

JobIds == [i \in 1..Len(job) |-> job[i].custom_id]

\* the scenario of C1: a paged hierarchy under the tasks root r
PagedScenario ==
    /\ TxtAnalysis
    /\ frame.parameters.is_hierarchy_type = HT_PAGED
    /\ Len(container.entries) = 4
    /\ Range(container.entries)
           = {E_1_page_txt, E_1_page_mp3, E_2_page_txt, E_3_other_bin}

\* C1 as stated: the paged scenario yields a Job with exactly 2 Tasks, one for
\* directory "1" and one for directory "2"; directory "3" contributes none.
C1_PagedScenarioTwoTasks ==
    (PagedScenario /\ pc = "returned") => JobIds = <<<<"1">>, <<"2">>>>

\* C1 amended: the paged scenario yields a Job with exactly 1 Task, the one of
\* directory "1" (page.txt with page.mp3); directory "2", which has no audio
\* file, and directory "3" contribute no Task.
C1_PagedScenarioOneTask ==
    (PagedScenario /\ pc = "returned") =>
        /\ result = "Job"
        /\ JobUnits = <<<<<<"1">>, E_1_page_txt, E_1_page_mp3>>>>

C1_Witness == PagedScenario /\ pc = "returned" /\ result = "Job" /\ Len(job) = 1

\* the numbers of text and audio entries filtering finds under a matched directory
TextCount(d) ==
    Len(FindFiles(container.entries, NormJoin(frame.tasks_root_directory, d),
                  frame.parameters.is_text_file_relative_path,
                  frame.parameters.is_text_file_name_regex))
AudioCount(d) ==
    Len(FindFiles(container.entries, NormJoin(frame.tasks_root_directory, d),
                  frame.parameters.is_audio_file_relative_path,
                  frame.parameters.is_audio_file_name_regex))
OnePair(d) == TextCount(d) = 1 /\ AudioCount(d) = 1

\* the call runs _analyze_txt_config (from analyze() or from the wizard)
InTxtConfig == frame.entry_point = "wizard" \/ TxtAnalysis

InPagedAnalysis ==
    /\ pc \in {"paged_loop", "returned", "raised"}
    /\ InTxtConfig
    /\ frame.parameters.is_hierarchy_type = HT_PAGED

\* C2: in a paged analysis the Job holds a Task for a matched directory if and
\* only if filtering finds exactly one text and one audio entry under it; a
\* directory with several text or audio entries is skipped without an error
\* (the only error is the missing language of C4, raised at a directory that
\* has its pair), and a returned Job has seen every matched directory.
C2_PagedTaskIffOnePair ==
    InPagedAnalysis =>
        /\ JobIds = SelectSeq(SubSeq(pending, 1, idx - 1), OnePair)
        /\ pc = "returned" => (result = "Job" /\ idx = Len(pending) + 1)
        /\ pc = "raised" => (OnePair(pending[idx]) /\ CreateTaskRaises(frame.parameters))

C2_Witness ==
    /\ InPagedAnalysis
    /\ pc = "returned"
    /\ \E i \in 1..Len(pending) : TextCount(pending[i]) = 2 /\ AudioCount(pending[i]) = 1
    /\ Len(job) >= 1

\* the scenario of C3: a flat hierarchy under the tasks root r
FlatScenario ==
    /\ TxtAnalysis
    /\ frame.parameters.is_hierarchy_type = HT_FLAT
    /\ Len(container.entries) = 3
    /\ Range(container.entries) = {E_text_ch1_txt, E_audio_ch1_mp3, E_text_ch2_txt}

\* C3: the flat scenario yields a Job with exactly one Task, binding
\* text/ch1.txt to audio/ch1.mp3; ch2, which has no audio, gives no Task and
\* no error.
C3_FlatScenarioOneTask ==
    FlatScenario =>
        /\ pc = "returned" =>
              /\ result = "Job"
              /\ Len(job) = 1
              /\ job[1].text_file_path = E_text_ch1_txt
              /\ job[1].audio_file_path = E_audio_ch1_mp3
        /\ pc = "flat_loop" => Len(pending) = 1
        /\ pc = "raised" => CreateTaskRaises(frame.parameters)

C3_Witness == FlatScenario /\ pc = "returned" /\ result = "Job" /\ Len(job) = 1

\* the dictionary _create_task reads for the i-th unit of the running loop
UnitParameters(i) == IF XmlAnalysis THEN pending[i] ELSE frame.parameters

\* the units for which the loop has called _create_task so far (all of pending
\* in the flat and XML loops, the directories with one pair in the paged loop)
BuiltUpTo(n) ==
    IF InPagedAnalysis THEN {i \in 1..n : OnePair(pending[i])} ELSE 1..n

\* C4: a Task's language is the Task-scope language key when the dictionary has
\* it, else the Job-scope key; when a Task is to be built and neither key is
\* there the call raises: no Job is returned, whatever was built before.
C4_LanguageOrError ==
    (InTxtConfig \/ XmlAnalysis) =>
        /\ \A i \in 1..Len(job) :
              LET p == IF XmlAnalysis THEN pending[i] ELSE frame.parameters
              IN  /\ job[i].language # Absent
                  /\ p.task_language # Absent => job[i].language = p.task_language
                  /\ p.task_language = Absent => job[i].language = p.job_language
        /\ result = "Job" =>
              \A i \in BuiltUpTo(Len(pending)) : ~CreateTaskRaises(UnitParameters(i))
        /\ pc = "raised" =>
              /\ result = "KeyError"
              /\ CreateTaskRaises(UnitParameters(idx))
        /\ (result = "pending" /\ idx > 1) =>
              \A i \in BuiltUpTo(idx - 1) : ~CreateTaskRaises(UnitParameters(i))

\* the call failed after a Task had been built
C4_Witness == pc = "raised" /\ result = "KeyError" /\ Len(job) >= 1

\* the sequences of units a TXT analysis of these entries can give
UnitsOf(entries, parameters, tasks_root_directory) ==
    IF parameters.is_hierarchy_type = HT_FLAT
    THEN FlatMatchedTasks(entries, parameters, tasks_root_directory)
    ELSE IF parameters.is_hierarchy_type = HT_PAGED
    THEN LET dirs == MatchDirectories(entries, tasks_root_directory,
                                      parameters.is_task_directory_name_regex)
             Found(d) == PagedFiles(entries, parameters, tasks_root_directory, d)
             One(d) == Len(Found(d).text_files) = 1 /\ Len(Found(d).audio_files) = 1
             good == SelectSeq(dirs, One)
         IN  {[i \in 1..Len(good) |->
                  <<good[i], Found(good[i]).text_files[1], Found(good[i]).audio_files[1]>>]}
    ELSE {<<>>}

\* C5: a configuration and a set of entries have one sequence of Tasks, the
\* one of the returned Job, whatever the order in which the container lists
\* the entries (every listing order of the same entries is among the containers
\* analyzed), for flat and paged hierarchies.
C5_TaskOrderIndependentOfListing ==
    (pc = "returned" /\ result = "Job" /\ InTxtConfig) =>
        UnitsOf(Sorted(container.entries), frame.parameters,
                frame.tasks_root_directory) = {JobUnits}

\* C7: with an XML configuration the Job holds one Task per <task> dictionary,
\* in their order, with the explicit paths joined onto the directory of the
\* config entry and the custom identifier, or "" without one; the entries of
\* the container are never read.
C7_XmlOneTaskPerMapping ==
    XmlAnalysis =>
        LET tasks == container.config_xml.tasks
            dir == Dirname(container.config_xml.entry)
        IN  /\ ~entries_read
            /\ Len(job) <= Len(tasks)
            /\ pc = "xml_loop" => Len(job) = idx - 1
            /\ result = "Job" => Len(job) = Len(tasks)
            /\ \A i \in 1..Len(job) :
                  /\ job[i].text_file_path = NormJoin(dir, tasks[i].is_text_file_xml)
                  /\ job[i].audio_file_path = NormJoin(dir, tasks[i].is_audio_file_xml)
                  /\ job[i].custom_id =
                        (IF tasks[i].custom_id = Absent THEN <<>> ELSE tasks[i].custom_id)

\* a Job of two Tasks, one without identifier, from a config entry in a
\* directory, its container listing entries
C7_Witness ==
    /\ XmlAnalysis /\ result = "Job" /\ Len(job) >= 2
    /\ \E i \in 1..Len(job) : job[i].custom_id = <<>>
    /\ Dirname(container.config_xml.entry) # <<>>
    /\ container.entries # <<>>

\* C8: analyze() returns None exactly when the container has neither
\* configuration; then no entry was read and no Task created; with a
\* configuration it returns a Job, unless a Task to build has no language
\* (the KeyError of C4).
C8_NoneIffNoConfiguration ==
    (frame.entry_point = "analyze" /\ pc \in {"returned", "raised"}) =>
        /\ result = "None" <=> (~container.has_config_xml /\ ~container.has_config_txt)
        /\ result = "None" => (~entries_read /\ job = <<>>)
        /\ result # "None" =>
              \/ result = "Job"
              \/ result = "KeyError" /\ CreateTaskRaises(UnitParameters(idx))

C8_Witness ==
    /\ frame.entry_point = "analyze" /\ pc = "returned" /\ result = "None"
    /\ container.entries # <<>>

-----------------------------------------------------------------------------
(* The helpers called on their own, on inputs drawn from bounded sets *)

\* no analysis runs while a helper is called on its own
Idle ==
    /\ container = [has_config_xml |-> FALSE, has_config_txt |-> FALSE,
                    config_txt |-> NoTxtConfig, config_xml |-> NoXmlConfig,
                    entries |-> <<>>]
    /\ frame = NoFrame
    /\ pending = <<>>
    /\ idx = 1
    /\ job = <<>>
    /\ result = "pending"
    /\ entries_read = FALSE

\* the helper returns value
Return(value) ==
    /\ pc' = "returned"
    /\ ret' = value
    /\ UNCHANGED <<container, frame, pending, idx, job, result, entries_read, call>>

(* _compute_sync_map_file_path *)

PathRoots == {OUT, OUT_PH, <<>>}
PathIds == {<<>>, <<"1">>, <<"a">>, CH01, <<"F", "I", "X">>, PPV_OS_TASK_PREFIX}
PathFileNames == {PH_SMIL, MAP_SMIL, PH_PH_SMIL, PRE_PH_FIX_SMIL, NoneV}

InitPath ==
    /\ Idle
    /\ pc = "start"
    /\ ret = NoneV
    /\ call \in {[fn |-> "_compute_sync_map_file_path", root |-> r, hierarchy_type |-> h,
                  custom_id |-> c, file_name |-> f] :
                    r \in PathRoots, h \in {HT_FLAT, HT_PAGED}, c \in PathIds,
                    f \in PathFileNames}

ComputeSyncMapFilePathCall ==
    /\ pc = "start"
    /\ call.fn = "_compute_sync_map_file_path"
    /\ Return(ComputeSyncMapFilePath(call.root, call.hierarchy_type, call.custom_id,
                                     call.file_name))

NextPath == ComputeSyncMapFilePathCall

SpecPath == InitPath /\ [][NextPath]_vars

(* _find_files *)

\* the most entries of a list given to _find_files
MaxFindEntries == 3

FindEntries == FlatEntries \cup {E_text2_ch3_txt, E_audio_ch3_mp3, E_textch4_txt}

InitFind ==
    /\ Idle
    /\ pc = "start"
    /\ ret = NoneV
    /\ call \in {[fn |-> "_find_files", entries |-> e, root |-> <<"r">>,
                  relative_path |-> p, file_name_regex |-> x] :
                    e \in ListsOf(FindEntries, MaxFindEntries),
                    p \in {<<"t", "e", "x", "t">>, <<".">>, NoneV},
                    x \in {RX_TXT, RX_MP3}}

FindFilesCall ==
    /\ pc = "start"
    /\ call.fn = "_find_files"
    /\ Return(FindFiles(call.entries, call.root, call.relative_path,
                        call.file_name_regex))

NextFind == FindFilesCall

SpecFind == InitFind /\ [][NextFind]_vars

(* _match_files_flat_hierarchy *)

\* the most files of a list given to _match_files_flat_hierarchy
MaxPairFiles == 2

PairTexts == {A_X_TXT, B_X_TXT, A_Y_TXT}
PairAudios == {A_X_MP3, B_X_MP3, A_Y_MP3}

InitPair ==
    /\ Idle
    /\ pc = "start"
    /\ ret = NoneV
    /\ call \in {[fn |-> "_match_files_flat_hierarchy", text_files |-> t,
                  audio_files |-> a] :
                    t \in ListsOf(PairTexts, MaxPairFiles),
                    a \in ListsOf(PairAudios, MaxPairFiles)}

MatchFilesFlatHierarchyCall ==
    /\ pc = "start"
    /\ call.fn = "_match_files_flat_hierarchy"
    /\ \E tasks \in MatchFilesFlatHierarchy(call.text_files, call.audio_files) :
           Return(tasks)

NextPair == MatchFilesFlatHierarchyCall

SpecPair == InitPair /\ [][NextPair]_vars

-----------------------------------------------------------------------------
(* Properties of the helpers *)

PathCalled == pc = "returned" /\ call.fn = "_compute_sync_map_file_path"

\* the path before the placeholder is replaced: the file name joined onto the
\* root (flat) or onto the root joined with the identifier (paged)
JoinedPath ==
    IF call.hierarchy_type = HT_PAGED
    THEN NormJoin(NormJoin(call.root, call.custom_id), call.file_name)
    ELSE NormJoin(call.root, call.file_name)

\* the pieces of s around the occurrences of old that str.replace finds
RECURSIVE PiecesAround(_, _)
PiecesAround(s, old) ==
    IF ~Contains(s, old) THEN <<s>>
    ELSE LET k == CHOOSE i \in 1..Len(s) :
                      /\ StartsWith(SliceFrom(s, i - 1), old)
                      /\ \A j \in 1..(i - 1) : ~StartsWith(SliceFrom(s, j - 1), old)
         IN  <<SubSeq(s, 1, k - 1)>> \o PiecesAround(SliceFrom(s, k - 1 + Len(old)), old)

\* sep.join(parts) for a string sep
RECURSIVE JoinWithStr(_, _)
JoinWithStr(parts, sep) ==
    IF Len(parts) = 1 THEN parts[1]
    ELSE parts[1] \o sep \o JoinWithStr(Tail(parts), sep)

\* the sync map path is the joined path with every placeholder found replaced
PathIsJoinedAndReplaced ==
    ret = JoinWithStr(PiecesAround(JoinedPath, PPV_OS_TASK_PREFIX), call.custom_id)

\* C6 as stated: the sync map path is the joined path (through the identifier
\* when paged) with every placeholder replaced, so that it holds no placeholder
\* when the identifier holds none.
C6_NoPlaceholderLeft ==
    PathCalled =>
        /\ PathIsJoinedAndReplaced
        /\ ~Contains(call.custom_id, PPV_OS_TASK_PREFIX)
               => ~Contains(ret, PPV_OS_TASK_PREFIX)

\* C6 amended: the sync map path is the joined path (through the identifier
\* when paged) with every placeholder occurrence, found left to right without
\* overlap, replaced by the identifier; it holds no placeholder when the
\* identifier is not empty and has none of the characters of the placeholder.
C6_SyncMapPath ==
    PathCalled =>
        /\ PathIsJoinedAndReplaced
        /\ (call.custom_id # <<>> /\ Range(call.custom_id) \cap Range(PPV_OS_TASK_PREFIX) = {})
               => ~Contains(ret, PPV_OS_TASK_PREFIX)

\* a paged output whose file name holds the placeholder twice
C6_Witness ==
    /\ PathCalled
    /\ call.hierarchy_type = HT_PAGED
    /\ call.custom_id = CH01
    /\ call.file_name = PH_PH_SMIL
    /\ call.root = OUT
    /\ ret = OUT \o <<SEP>> \o CH01 \o <<SEP>> \o CH01 \o <<SEP>> \o CH01
                 \o <<".", "s", "m", "i", "l">>

FindCalled == pc = "returned" /\ call.fn = "_find_files"

\* C9 as stated: _find_files returns only entries under target =
\* join(root, relative_path): target followed by a separator; an entry that
\* has target as a prefix of a longer directory name is never returned.
C9_OnlyEntriesUnderTarget ==
    FindCalled =>
        LET target == IF call.relative_path = NoneV THEN call.root
                      ELSE NormJoin(call.root, call.relative_path)
        IN  \A i \in 1..Len(ret) : StartsWith(ret[i], target \o <<SEP>>)

PairCalled == pc = "returned" /\ call.fn = "_match_files_flat_hierarchy"

\* C10 as stated: the pairing key keeps the directory part of the entry, so
\* a/x.txt and b/x.mp3 give no pair and a/x.txt and a/x.mp3 give the one pair
\* (a/x, a/x.txt, a/x.mp3).
C10_KeyKeepsDirectory ==
    PairCalled =>
        /\ (call.text_files = <<A_X_TXT>> /\ call.audio_files = <<B_X_MP3>>)
               => ret = <<>>
        /\ (call.text_files = <<A_X_TXT>> /\ call.audio_files = <<A_X_MP3>>)
               => ret = <<<<<<"a", "/", "x">>, A_X_TXT, A_X_MP3>>>>

\* C10 amended: the pairing key is the base name of the entry without its final
\* extension and without its directory part, the same for both lists, so
\* a/x.txt and b/x.mp3 give the one pair (x, a/x.txt, b/x.mp3) and a/x.txt and
\* a/x.mp3 give the one pair (x, a/x.txt, a/x.mp3).
C10_KeyIsBaseName ==
    PairCalled =>
        /\ (call.text_files = <<A_X_TXT>> /\ call.audio_files = <<B_X_MP3>>)
               => ret = <<<<<<"x">>, A_X_TXT, B_X_MP3>>>>
        /\ (call.text_files = <<A_X_TXT>> /\ call.audio_files = <<A_X_MP3>>)
               => ret = <<<<<<"x">>, A_X_TXT, A_X_MP3>>>>
        /\ \A i \in 1..Len(ret) :
              /\ SEP \notin Range(ret[i][1])
              /\ ret[i][2] \in Range(call.text_files)
              /\ ret[i][3] \in Range(call.audio_files)
              /\ Basename(ret[i][2]) = ret[i][1] \o <<".", "t", "x", "t">>
              /\ Basename(ret[i][3]) = ret[i][1] \o <<".", "m", "p", "3">>

C10_Witness ==
    /\ PairCalled
    /\ call.text_files = <<A_X_TXT>>
    /\ call.audio_files = <<B_X_MP3>>
    /\ Len(ret) = 1

\* the keys of a list of files
KeysOf(files) == {FileNameWithoutExtension(files[i]) : i \in 1..Len(files)}

\* no two files of the list have the same key
DistinctKeys(files) ==
    \A i, j \in 1..Len(files) :
        FileNameWithoutExtension(files[i]) = FileNameWithoutExtension(files[j]) => i = j

\* the lists that hold the elements of l in another order (l has no repetition)
PermutationsOf(l) == {q \in ListsOf(Range(l), Len(l)) : Len(q) = Len(l)}

\* whatever the order of the two lists, the set of pairs is the one returned
SamePairsInEveryOrder ==
    \A t \in PermutationsOf(call.text_files), a \in PermutationsOf(call.audio_files) :
        \A tasks \in MatchFilesFlatHierarchy(t, a) : Range(tasks) = Range(ret)

\* C11 as stated: permuting the text list or the audio list gives the same set
\* of (key, text, audio) pairs, also when several entries of a list share a key.
C11_PairsIndependentOfOrder == PairCalled => SamePairsInEveryOrder

\* C11 amended: permuting the text list or the audio list gives the same set
\* of (key, text, audio) pairs when no two entries of one list share a pairing
\* key; with a shared key the last entry of the list wins, so the order counts.
C11_PairsIndependentOfOrderDistinctKeys ==
    (PairCalled /\ DistinctKeys(call.text_files) /\ DistinctKeys(call.audio_files))
        => SamePairsInEveryOrder

\* two pairs from lists with distinct keys, the texts and audios in opposite orders
C11_Witness ==
    /\ PairCalled
    /\ call.text_files = <<A_Y_TXT, A_X_TXT>>
    /\ call.audio_files = <<A_X_MP3, A_Y_MP3>>
    /\ Len(ret) = 2

\* C12: a pair is emitted for a key if and only if the key occurs in the text
\* list and in the audio list, and at most once: a key of one side only gives
\* no pair (and no error), and no two pairs have the same key; the paths of a
\* pair are files of the two lists with that key.
C12_PairIffKeyOnBothSides ==
    PairCalled =>
        /\ {ret[i][1] : i \in 1..Len(ret)}
               = KeysOf(call.text_files) \cap KeysOf(call.audio_files)
        /\ \A i, j \in 1..Len(ret) : ret[i][1] = ret[j][1] => i = j
        /\ \A i \in 1..Len(ret) :
              /\ ret[i][2] \in Range(call.text_files)
              /\ ret[i][3] \in Range(call.audio_files)
              /\ FileNameWithoutExtension(ret[i][2]) = ret[i][1]
              /\ FileNameWithoutExtension(ret[i][3]) = ret[i][1]

\* two texts share the key x, which the audios have too; the key y is on the
\* audio side only: one pair
C12_Witness ==
    /\ PairCalled
    /\ call.text_files = <<A_X_TXT, B_X_TXT>>
    /\ call.audio_files = <<A_X_MP3, A_Y_MP3>>
    /\ Len(ret) = 1
    /\ ret[1][1] = <<"x">>

-----------------------------------------------------------------------------
(* _match_directories called on its own *)

\* the most entries of a list given to _match_directories
MaxDirEntries == 3

E_3 == <<"r", "/", "3">>
E_1a_b == <<"r", "/", "1", "a", "/", "b">>
E_x_page_txt == <<"r", "/", "x", "/", "p", "a", "g", "e", ".", "t", "x", "t">>
E_rx1_page_txt == <<"r", "x", "1", "/", "p", "a", "g", "e", ".", "t", "x", "t">>
E_rxy_1_x == <<"r", "x", "y", "/", "1", "/", "x">>

\* entries below the root r (in a directory or directly in r) and entries of
\* directories whose name only starts with r
DirEntries ==
    {E_1_page_txt, E_1_page_mp3, E_2_page_txt, E_3, E_1a_b, E_x_page_txt,
     E_rx1_page_txt, E_rxy_1_x}

InitDirs ==
    /\ Idle
    /\ pc = "start"
    /\ ret = NoneV
    /\ call \in {[fn |-> "_match_directories", entries |-> e, root |-> <<"r">>,
                  regex_string |-> RX_DIGITS] :
                    e \in ListsOf(DirEntries, MaxDirEntries)}

MatchDirectoriesCall ==
    /\ pc = "start"
    /\ call.fn = "_match_directories"
    /\ Return(MatchDirectories(call.entries, call.root, call.regex_string))

NextDirs == MatchDirectoriesCall

SpecDirs == InitDirs /\ [][NextDirs]_vars

DirsCalled == pc = "returned" /\ call.fn = "_match_directories"

\* the names d that some entry under root + separator has as its first
\* component, followed by a further component, d matching the pattern at its start
DirectoriesUnderRoot ==
    LET Components(entry) == Split(SliceFrom(entry, Len(call.root) + 1), SEP)
    IN  {Components(e)[1] :
            e \in {x \in Range(call.entries) :
                      /\ StartsWith(x, call.root \o <<SEP>>)
                      /\ Len(Components(x)) >= 2
                      /\ ReMatch(call.regex_string, Components(x)[1])}}

\* C13 as stated: _match_directories returns exactly the sorted list, without
\* repetition, of the directory names under root + separator that hold a deeper
\* entry and match the pattern at their start; an entry that shares root only
\* as a string prefix gives no directory.
C13_ExactlyDirectoriesUnderRoot ==
    DirsCalled =>
        /\ Range(ret) = DirectoriesUnderRoot
        /\ \A i, j \in 1..Len(ret) : i < j => StrLess(ret[i], ret[j])

=============================================================================
